---- MODULE Spec2Model ----
(***************************************************************************)
(* The generic singly-linked list of src/generics.ts (class LinkedList,    *)
(* lines 201-305) as a state machine over an explicit heap of nodes.       *)
(*                                                                         *)
(* A node is a record [value, next]; the heap is the sequence of the live  *)
(* nodes and a node's identity is its position in the heap.  Every call of *)
(* a method is one atomic action: the code is synchronous and single       *)
(* threaded.  The pointer manipulation of each method is translated        *)
(* statement by statement; the claims compare its outcome with the         *)
(* sequence obtained by ordinary sequence operations.                      *)
(***************************************************************************)
EXTENDS Integers, Sequences, FiniteSets, TLC

\* ---------------------------------------------------------------- bounds
\* At most MaxNodes nodes are live (reachable from head or from an iterator).
MaxNodes == 4
\* Under SpecIter the heap is kept smaller: at most MaxIterNodes live nodes.
MaxIterNodes == 3
\* Under SpecIter an iterator is asked for at most MaxYield values.
MaxYield == 3

\* Under SpecRead at most MaxReadNodes nodes are live.
MaxReadNodes == 2

\* Under SpecRaw at most MaxAlloc nodes are ever created.
MaxAlloc == 4

\* Under SpecBoth each of the two lists holds at most MaxBothNodes nodes.
MaxBothNodes == 3

\* ensureHasLength is called with objects whose length is at most MaxArgLen.
MaxArgLen == 4

\* Under SpecDeco at most MaxInstances instances of Person are constructed and
\* at most MaxConsole lines are logged.
MaxInstances == 2
MaxConsole == 8

\* Under SpecStack at most MaxPushes items are ever pushed.
MaxPushes == 4

\* Under SpecEmitter on() is called at most MaxOn times.
MaxOn == 4

\* Under SpecIdem on() is called at most MaxIdemOn times.
MaxIdemOn == 3

\* Under SpecLive at most MaxTick calls of on and off and invocations of
\* callbacks are made.
MaxTick == 6

\* Under SpecAlg the list has at most MaxAlgNodes nodes.
MaxAlgNodes == 3

\* Under SpecRepo save() is called at most MaxSaves times.
MaxSaves == 3

\* Under SpecFsm at most MaxSteps transitions are taken.
MaxSteps == 3

\* The element values the calls are made with (the usage example of
\* generics.ts:308-314 uses 1, 2, 3 and 99).
Values == {1, 2, 3, 99}
\* The values used under SpecIter.
IterValues == {1, 2}
\* The indexes insertAt and removeAt are called with: below 0, every position
\* of the largest list, and beyond its size.
Indexes == (-1) .. (MaxNodes + 1)
\* A predicate passed to find is the set of the values it accepts
\* (v => v > 50 is {99}).
Preds == SUBSET Values

\* JavaScript's undefined: a node's missing next, an empty head, a returned
\* absence marker.  No element value is 0.
Undefined == 0

VARIABLES
    heap,   \* the live LinkedListNode objects: heap[n] = [value, next]
    head,   \* LinkedList.head: a node, or Undefined
    size,   \* LinkedList._size
    last,   \* the last call: its name, arguments, outcome and the list before it
    it,     \* the iterator obtained from [Symbol.iterator](), and what it yielded
    arr,    \* the array the last toArray() call returned
    js,     \* the compiled LinkedList of src/decorators.ts, given the same calls
    ehl,    \* the last ensureHasLength call
    deco,   \* the decorated Person class: the console, the instances
    stack,  \* a Stack
    emitter, \* a TypedEventEmitter
    repo,   \* a Repository
    fsm,    \* the states of ValidTransitions and the last CanTransition asked
    live,   \* a TypedEventEmitter whose callbacks call on and off
    pair,   \* the last two calls on the list, and the list before them
    twin    \* a second LinkedList, given insertAt(size(), v) for each add(v)

\* The repository, the transition table, the emitter with callbacks that
\* register and remove callbacks, and what the laws relating the list's
\* methods are stated with.
restVars == <<repo, fsm, live, pair, twin>>

vars == <<heap, head, size, last, it, arr, js, ehl, deco, stack, emitter,
          restVars>>

\* The state of the examples other than the linked list.
otherVars == <<ehl, deco, stack, emitter, restVars>>

\* ------------------------------------------------------------ heap helpers

\* new LinkedListNode(value): a fresh node with no next.
NewNode(v) == [value |-> v, next |-> Undefined]

\* The nodes met from c by following next, in order.
RECURSIVE Chain(_, _)
Chain(h, c) ==
    IF c = Undefined THEN <<>> ELSE <<c>> \o Chain(h, h[c].next)

\* toArray with `while (cur.next)` for `while (cur)`: the last value is left out.
RECURSIVE toArray_Rest(_, _)
toArray_Rest(h, c) ==
    IF c = Undefined \/ h[c].next = Undefined THEN <<>>
    ELSE <<h[c].value>> \o toArray_Rest(h, h[c].next)

\* toArray(): the values met from head, in order.
RECURSIVE toArray(_, _)
toArray(h, c) ==
    IF c = Undefined THEN <<>> ELSE <<h[c].value>> \o toArray(h, h[c].next)

\* `while (cur.next) cur = cur.next;` from a defined cur: the last node.
RECURSIVE LastNode(_, _)
LastNode(h, cur) ==
    IF h[cur].next = Undefined THEN cur ELSE LastNode(h, h[cur].next)

\* `for (let i = 0; i < k; i++) cur = cur.next!;`: cur after k steps.  Falling
\* off the chain gives Undefined: the next dereference of cur then throws.
RECURSIVE Walk(_, _, _)
Walk(h, cur, k) ==
    IF k <= 0 \/ cur = Undefined THEN cur ELSE Walk(h, h[cur].next, k - 1)

\* Objects have no observable identity and unreachable ones are collected:
\* the live nodes are renumbered in the order they are met from head and then
\* from the iterator's cursor.
Compact(h, hd, cur) ==
    LET listN == Chain(h, hd)
        InList(n) == \E i \in 1 .. Len(listN) : listN[i] = n
        NotInList(n) == ~InList(n)
        order == listN \o SelectSeq(Chain(h, cur), NotInList)
        Pos(n) == IF n = Undefined THEN Undefined
                  ELSE CHOOSE i \in 1 .. Len(order) : order[i] = n
    IN  [heap |-> [i \in 1 .. Len(order) |->
                      [value |-> h[order[i]].value, next |-> Pos(h[order[i]].next)]],
         head |-> Pos(hd),
         cur  |-> Pos(cur)]

\* ------------------------------------------------------------- the methods
\* Each method is an operator from the list's fields (and the arguments) to the
\* fields after the call, the returned value and the error thrown.

\* add with the traversal to the last node left out: the new node is linked
\* right after head.
add_NoTraverse(h, hd, sz, v) ==
    LET node == Len(h) + 1
        h1 == Append(h, NewNode(v))
    IN  IF hd = Undefined
        THEN [heap |-> h1, head |-> node, size |-> sz + 1]
        ELSE [heap |-> [h1 EXCEPT ![hd].next = node], head |-> hd, size |-> sz + 1]

\* add linking the new node in front of the list.
add_Front(h, hd, sz, v) ==
    [heap |-> Append(h, [value |-> v, next |-> hd]), head |-> Len(h) + 1,
     size |-> sz + 1]

\* add(value), generics.ts:215-224.
add(h, hd, sz, v) ==
    LET node == Len(h) + 1
        h1 == Append(h, NewNode(v))
    IN  IF hd = Undefined
        THEN [heap |-> h1, head |-> node, size |-> sz + 1]
        ELSE LET cur == LastNode(h1, hd)
             IN  [heap |-> [h1 EXCEPT ![cur].next = node], head |-> hd, size |-> sz + 1]

\* The bounds check with >= for >: inserting at the end is refused.
InsertOutOfBounds_Strict(index, sz) == index < 0 \/ index >= sz

\* The bounds check of insertAt, generics.ts:227: TRUE when it throws.
InsertOutOfBounds(index, sz) == index < 0 \/ index > sz

\* The linking with `this._size++` left out.
InsertLink_NoSize(h, hd, sz, index, v) ==
    LET node == Len(h) + 1
        h1 == Append(h, NewNode(v))
    IN  IF index = 0
        THEN [heap |-> [h1 EXCEPT ![node].next = hd], head |-> node,
              size |-> sz, threw |-> "none"]
        ELSE LET cur == Walk(h1, hd, index - 1)
             IN  IF cur = Undefined
                 THEN [heap |-> h, head |-> hd, size |-> sz, threw |-> "TypeError"]
                 ELSE [heap |-> [h1 EXCEPT ![node].next = h1[cur].next,
                                           ![cur].next = node],
                       head |-> hd, size |-> sz, threw |-> "none"]

\* The linking with the loop running to index instead of index - 1.
InsertLink_AfterCur(h, hd, sz, index, v) ==
    LET node == Len(h) + 1
        h1 == Append(h, NewNode(v))
    IN  IF index = 0
        THEN [heap |-> [h1 EXCEPT ![node].next = hd], head |-> node,
              size |-> sz + 1, threw |-> "none"]
        ELSE LET cur == Walk(h1, hd, index)
             IN  IF cur = Undefined
                 THEN [heap |-> h, head |-> hd, size |-> sz, threw |-> "TypeError"]
                 ELSE [heap |-> [h1 EXCEPT ![node].next = h1[cur].next,
                                           ![cur].next = node],
                       head |-> hd, size |-> sz + 1, threw |-> "none"]

\* The linking with `node.next = cur` for `node.next = cur.next`: the new node
\* points back at the node it is linked after.
InsertLink_Back(h, hd, sz, index, v) ==
    LET node == Len(h) + 1
        h1 == Append(h, NewNode(v))
    IN  IF index = 0
        THEN [heap |-> [h1 EXCEPT ![node].next = hd], head |-> node,
              size |-> sz + 1, threw |-> "none"]
        ELSE LET cur == Walk(h1, hd, index - 1)
             IN  IF cur = Undefined
                 THEN [heap |-> h, head |-> hd, size |-> sz, threw |-> "TypeError"]
                 ELSE [heap |-> [h1 EXCEPT ![node].next = cur,
                                           ![cur].next = node],
                       head |-> hd, size |-> sz + 1, threw |-> "none"]

\* The linking of insertAt, generics.ts:228-238 (after the bounds check).
InsertLink(h, hd, sz, index, v) ==
    LET node == Len(h) + 1
        h1 == Append(h, NewNode(v))
    IN  IF index = 0
        THEN [heap |-> [h1 EXCEPT ![node].next = hd], head |-> node,
              size |-> sz + 1, threw |-> "none"]
        ELSE LET cur == Walk(h1, hd, index - 1)
             IN  IF cur = Undefined
                 THEN [heap |-> h, head |-> hd, size |-> sz, threw |-> "TypeError"]
                 ELSE [heap |-> [h1 EXCEPT ![node].next = h1[cur].next,
                                           ![cur].next = node],
                       head |-> hd, size |-> sz + 1, threw |-> "none"]

\* insertAt with the bounds check made after the linking instead of before.
insertAt_LinkFirst(h, hd, sz, index, v) ==
    LET r == InsertLink(h, hd, sz, index, v)
    IN  IF InsertOutOfBounds(index, sz) THEN [r EXCEPT !.threw = "RangeError"] ELSE r

\* insertAt(index, value), generics.ts:226-239.
insertAt(h, hd, sz, index, v) ==
    IF InsertOutOfBounds(index, sz)
    THEN [heap |-> h, head |-> hd, size |-> sz, threw |-> "RangeError"]
    ELSE InsertLink(h, hd, sz, index, v)

\* The bounds check with `index < 0` left out.
RemoveOutOfBounds_NoNegative(index, sz) == index >= sz

\* The bounds check of removeAt, generics.ts:242: TRUE when it returns undefined.
RemoveOutOfBounds(index, sz) == index < 0 \/ index >= sz

\* The unlinking with the loop running to index instead of index - 1: the node
\* after the one asked for is removed.
RemoveUnlink_WrongNode(h, hd, sz, index) ==
    IF index = 0
    THEN LET removed == hd
         IN  [heap |-> h,
              head |-> IF hd = Undefined THEN Undefined ELSE h[hd].next,
              size |-> IF removed # Undefined THEN sz - 1 ELSE sz,
              ret  |-> IF removed = Undefined THEN Undefined ELSE h[removed].value,
              threw |-> "none"]
    ELSE LET cur == Walk(h, hd, index)
         IN  IF cur = Undefined
             THEN [heap |-> h, head |-> hd, size |-> sz, ret |-> Undefined,
                   threw |-> "TypeError"]
             ELSE LET removed == h[cur].next
                      after == IF removed = Undefined THEN Undefined
                               ELSE h[removed].next
                  IN  [heap |-> [h EXCEPT ![cur].next = after],
                       head |-> hd,
                       size |-> IF removed # Undefined THEN sz - 1 ELSE sz,
                       ret  |-> IF removed = Undefined THEN Undefined
                                ELSE h[removed].value,
                       threw |-> "none"]

\* The unlinking of removeAt, generics.ts:243-254 (after the bounds check).
RemoveUnlink(h, hd, sz, index) ==
    IF index = 0
    THEN LET removed == hd
         IN  [heap |-> h,
              head |-> IF hd = Undefined THEN Undefined ELSE h[hd].next,
              size |-> IF removed # Undefined THEN sz - 1 ELSE sz,
              ret  |-> IF removed = Undefined THEN Undefined ELSE h[removed].value,
              threw |-> "none"]
    ELSE LET cur == Walk(h, hd, index - 1)
         IN  IF cur = Undefined
             THEN [heap |-> h, head |-> hd, size |-> sz, ret |-> Undefined,
                   threw |-> "TypeError"]
             ELSE LET removed == h[cur].next
                      after == IF removed = Undefined THEN Undefined
                               ELSE h[removed].next
                  IN  [heap |-> [h EXCEPT ![cur].next = after],
                       head |-> hd,
                       size |-> IF removed # Undefined THEN sz - 1 ELSE sz,
                       ret  |-> IF removed = Undefined THEN Undefined
                                ELSE h[removed].value,
                       threw |-> "none"]

\* removeAt unlinking the first node whatever the index.
removeAt_Head(h, hd, sz, index) ==
    IF RemoveOutOfBounds(index, sz)
    THEN [heap |-> h, head |-> hd, size |-> sz, ret |-> Undefined, threw |-> "none"]
    ELSE RemoveUnlink(h, hd, sz, 0)

\* removeAt(index), generics.ts:241-255.
removeAt(h, hd, sz, index) ==
    IF RemoveOutOfBounds(index, sz)
    THEN [heap |-> h, head |-> hd, size |-> sz, ret |-> Undefined, threw |-> "none"]
    ELSE RemoveUnlink(h, hd, sz, index)

\* find that keeps looking after a match: the last matching element.
RECURSIVE find_Last(_, _, _)
find_Last(h, cur, p) ==
    IF cur = Undefined THEN Undefined
    ELSE LET later == find_Last(h, h[cur].next, p)
         IN  IF later # Undefined THEN later
             ELSE IF h[cur].value \in p THEN h[cur].value
             ELSE Undefined

\* find(predicate), generics.ts:257-264, from cur = head.
RECURSIVE find(_, _, _)
find(h, cur, p) ==
    IF cur = Undefined THEN Undefined
    ELSE IF h[cur].value \in p THEN h[cur].value
    ELSE find(h, h[cur].next, p)

\* clear with `this._size = 0` left out.
clear_KeepSize(h, hd, sz) == [heap |-> h, head |-> Undefined, size |-> sz]

\* clear with `this.head = undefined` left out.
clear_KeepHead(h, hd, sz) == [heap |-> h, head |-> hd, size |-> 0]

\* clear(), generics.ts:280-283.
clear(h, hd, sz) == [heap |-> h, head |-> Undefined, size |-> 0]

\* next() with `cur = cur.next` left out: the cursor never advances.
IterStep_NoAdvance(h, cur) ==
    IF cur = Undefined
    THEN [done |-> TRUE, value |-> Undefined, cur |-> cur]
    ELSE [done |-> FALSE, value |-> h[cur].value, cur |-> cur]

\* next() of the iterator, generics.ts:297-302, on the captured cursor cur.
IterStep(h, cur) ==
    IF cur = Undefined
    THEN [done |-> TRUE, value |-> Undefined, cur |-> cur]
    ELSE [done |-> FALSE, value |-> h[cur].value, cur |-> h[cur].next]

\* LinkedList.fromArray(arr), generics.ts:209-213: a new list, then add(v) for
\* each v of arr from the i-th on; l holds the fields of the list so far.
RECURSIVE fromArrayLoop(_, _, _)
fromArrayLoop(a, i, l) ==
    IF i > Len(a) THEN l
    ELSE fromArrayLoop(a, i + 1, add(l.heap, l.head, l.size, a[i]))

\* fromArray leaving out the first element of arr.
fromArray_SkipFirst(a) ==
    fromArrayLoop(a, 2, [heap |-> <<>>, head |-> Undefined, size |-> 0])

fromArray(a) == fromArrayLoop(a, 1, [heap |-> <<>>, head |-> Undefined, size |-> 0])

\* The methods that read, each as the fields it leaves and what it returns:
\* they assign to the locals cur, out and i only.
CallFind(h, hd, sz, p) ==
    [heap |-> h, head |-> hd, size |-> sz, ret |-> find(h, hd, p)]

\* toArray(), generics.ts:266-274.
CallToArray(h, hd, sz) ==
    [heap |-> h, head |-> hd, size |-> sz, ret |-> toArray(h, hd)]

\* size(), generics.ts:276-278.
CallSize(h, hd, sz) == [heap |-> h, head |-> hd, size |-> sz, ret |-> sz]

\* forEach walking with this.head in place of the local cur.
CallForEach_Consume(h, hd, sz) ==
    LET a == toArray(h, hd)
    IN  [heap |-> h, head |-> Undefined, size |-> sz,
         ret |-> [k \in 1 .. Len(a) |-> <<a[k], k - 1>>]]

\* forEach(fn), generics.ts:285-292, with an fn that calls no method of the
\* list: ret is the arguments fn was called with, in order.
CallForEach(h, hd, sz) ==
    LET a == toArray(h, hd)
    IN  [heap |-> h, head |-> hd, size |-> sz,
         ret |-> [k \in 1 .. Len(a) |-> <<a[k], k - 1>>]]

\* The values next() yields from the cursor cur on, until done.
RECURSIVE Drain(_, _)
Drain(h, cur) ==
    LET s == IterStep(h, cur)
    IN  IF s.done THEN <<>> ELSE <<s.value>> \o Drain(h, s.cur)

\* A for...of loop over the list, generics.ts:294-304, whose body calls no
\* method of the list: ret is the values yielded.
CallIterate(h, hd, sz) ==
    [heap |-> h, head |-> hd, size |-> sz, ret |-> Drain(h, hd)]

\* ------------------------------------------------- the compiled LinkedList
\* The class of src/decorators.ts:167-271, the compiler's output for the class
\* above, translated from its own statements.

\* add(value), decorators.ts:177-188.
js_add(h, hd, sz, v) ==
    LET node == Len(h) + 1
        h1 == Append(h, [value |-> v, next |-> Undefined])
    IN  IF hd = Undefined
        THEN [heap |-> h1, head |-> node, size |-> sz + 1]
        ELSE LET cur == LastNode(h1, hd)
             IN  [heap |-> [h1 EXCEPT ![cur].next = node], head |-> hd, size |-> sz + 1]

\* LinkedList.fromArray(arr), decorators.ts:171-176.
RECURSIVE js_fromArrayLoop(_, _, _)
js_fromArrayLoop(a, i, l) ==
    IF i > Len(a) THEN l
    ELSE js_fromArrayLoop(a, i + 1, js_add(l.heap, l.head, l.size, a[i]))

js_fromArray(a) ==
    js_fromArrayLoop(a, 1, [heap |-> <<>>, head |-> Undefined, size |-> 0])

\* insertAt(index, value), decorators.ts:189-205.
js_insertAt(h, hd, sz, index, v) ==
    IF index < 0 \/ index > sz
    THEN [heap |-> h, head |-> hd, size |-> sz, threw |-> "RangeError"]
    ELSE LET node == Len(h) + 1
             h1 == Append(h, [value |-> v, next |-> Undefined])
         IN  IF index = 0
             THEN [heap |-> [h1 EXCEPT ![node].next = hd], head |-> node,
                   size |-> sz + 1, threw |-> "none"]
             ELSE LET cur == Walk(h1, hd, index - 1)
                  IN  IF cur = Undefined
                      THEN [heap |-> h, head |-> hd, size |-> sz,
                            threw |-> "TypeError"]
                      ELSE [heap |-> [h1 EXCEPT ![node].next = h1[cur].next,
                                                ![cur].next = node],
                            head |-> hd, size |-> sz + 1, threw |-> "none"]

\* `(_a = x) === null || _a === void 0 ? void 0 : _a.next`, decorators.ts:213
\* and 220: the next of x, or undefined when x is undefined.
js_OptNext(h, x) == IF x = Undefined THEN Undefined ELSE h[x].next

\* removeAt with `if (removed) this._size--` left out.
js_removeAt_NoSize(h, hd, sz, index) ==
    IF index < 0 \/ index >= sz
    THEN [heap |-> h, head |-> hd, size |-> sz, ret |-> Undefined, threw |-> "none"]
    ELSE IF index = 0
    THEN [heap |-> h, head |-> js_OptNext(h, hd), size |-> sz,
          ret |-> IF hd = Undefined THEN Undefined ELSE h[hd].value,
          threw |-> "none"]
    ELSE LET cur == Walk(h, hd, index - 1)
         IN  IF cur = Undefined
             THEN [heap |-> h, head |-> hd, size |-> sz, ret |-> Undefined,
                   threw |-> "TypeError"]
             ELSE LET removed == h[cur].next
                  IN  [heap |-> [h EXCEPT ![cur].next = js_OptNext(h, removed)],
                       head |-> hd, size |-> sz,
                       ret |-> IF removed = Undefined THEN Undefined
                               ELSE h[removed].value,
                       threw |-> "none"]

\* removeAt(index), decorators.ts:206-225.
js_removeAt(h, hd, sz, index) ==
    IF index < 0 \/ index >= sz
    THEN [heap |-> h, head |-> hd, size |-> sz, ret |-> Undefined, threw |-> "none"]
    ELSE IF index = 0
    THEN [heap |-> h, head |-> js_OptNext(h, hd),
          size |-> IF hd # Undefined THEN sz - 1 ELSE sz,
          ret |-> IF hd = Undefined THEN Undefined ELSE h[hd].value,
          threw |-> "none"]
    ELSE LET cur == Walk(h, hd, index - 1)
         IN  IF cur = Undefined
             THEN [heap |-> h, head |-> hd, size |-> sz, ret |-> Undefined,
                   threw |-> "TypeError"]
             ELSE LET removed == h[cur].next
                  IN  [heap |-> [h EXCEPT ![cur].next = js_OptNext(h, removed)],
                       head |-> hd,
                       size |-> IF removed # Undefined THEN sz - 1 ELSE sz,
                       ret |-> IF removed = Undefined THEN Undefined
                               ELSE h[removed].value,
                       threw |-> "none"]

\* find(predicate), decorators.ts:226-234.
RECURSIVE js_find(_, _, _)
js_find(h, cur, p) ==
    IF cur = Undefined THEN Undefined
    ELSE IF h[cur].value \in p THEN h[cur].value
    ELSE js_find(h, h[cur].next, p)

\* toArray(), decorators.ts:235-243.
RECURSIVE js_toArray(_, _)
js_toArray(h, cur) ==
    IF cur = Undefined THEN <<>> ELSE <<h[cur].value>> \o js_toArray(h, h[cur].next)

\* clear(), decorators.ts:247-250.
js_clear(h, hd, sz) == [heap |-> h, head |-> Undefined, size |-> 0]

\* ------------------------------------------------------- ensureHasLength
\* An argument of ensureHasLength is an object with a length property
\* (interface HasLength, generics.ts:12-14) and whatever else it holds: an array
\* or a string has its number of items as length, another object any number.
HasLengthArgs ==
    [length : (-1) .. MaxArgLen,
     items : UNION {[1 .. k -> Values] : k \in 0 .. 2}]

\* What stands for an argument or a result where there is none.
NoArg == [length |-> 0, items |-> <<>>]

\* ensureHasLength with `<= 0` for `=== 0`.
ensureHasLength_NotPositive(arg) ==
    IF arg.length <= 0 THEN [ret |-> NoArg, threw |-> "Empty"]
    ELSE [ret |-> arg, threw |-> "none"]

\* ensureHasLength(arg), generics.ts:16-19.
ensureHasLength(arg) ==
    IF arg.length = 0 THEN [ret |-> NoArg, threw |-> "Empty"]
    ELSE [ret |-> arg, threw |-> "none"]

\* ------------------------------------------------- the logger decorator
\* src/decorators.ts:1-31.  A console line is the tuple of the strings logged;
\* who is the instance a line is about (0: none), kept to tell the instances'
\* lines apart.
Line(text, who) == [text |-> text, who |-> who]

\* The body of logger before its return, decorators.ts:2-4, on the console c.
logger(c) ==
    c \o <<Line(<<"logger decorator">>, 0), Line(<<"[class Person]">>, 0),
           Line(<<"[ClassDecoratorContext]">>, 0)>>

\* The field initialiser of Person, decorators.ts:20, run by super(...args).
PersonFields(this) == [this EXCEPT !.name = "Max"]

\* The wrapper with `age = 35` left out.
WrapperFields_None(this) == this

\* The field initialiser of the returned class, decorators.ts:12, run when
\* super(...args) has returned.
WrapperFields(this) == [this EXCEPT !.age = 35]

\* The wrapper's constructor with its console.log left out.
WrapperBody_Silent(c, who) == c

\* The rest of the wrapper's constructor, decorators.ts:10.
WrapperBody(c, who) == Append(c, Line(<<"class constructor">>, who))

\* greet(), decorators.ts:22-25, on the instance this.
greet(c, this, who) == Append(c, Line(<<"Hi, I am ", this.name>>, who))

\* ------------------------------------------------------------------ Stack
\* class Stack, generics.ts:35-40.  An item is the value pushed together with
\* the number n of the push that put it there, by which equal values are told
\* apart.
StackValues == {10, 20}

\* What pop() and peek() return on no item: undefined.
NoItem == [v |-> Undefined, n |-> 0]

\* push(item), generics.ts:37: Array.prototype.push.
push(items, item) == Append(items, item)

\* pop taking the first item instead of the last (Array.prototype.shift).
pop_Shift(items) ==
    IF items = <<>> THEN [items |-> items, ret |-> NoItem]
    ELSE [items |-> Tail(items), ret |-> Head(items)]

\* pop(), generics.ts:38: Array.prototype.pop removes and returns the last
\* item, and returns undefined on an empty array.
pop(items) ==
    IF items = <<>> THEN [items |-> items, ret |-> NoItem]
    ELSE [items |-> SubSeq(items, 1, Len(items) - 1), ret |-> items[Len(items)]]

\* peek(), generics.ts:39: items[items.length - 1], undefined when there is
\* no such index.
peek(items) == IF Len(items) - 1 < 0 THEN NoItem ELSE items[Len(items)]

\* A pop() call: the items left, what is returned, the error raised.
\* Array.prototype.pop raises none, on an empty array either.
CallPop(items) ==
    [items |-> pop(items).items, ret |-> pop(items).ret, threw |-> "none"]

\* peek taking the item off the stack.
CallPeek_Take(items) ==
    [items |-> pop(items).items, ret |-> peek(items), threw |-> "none"]

\* A peek() call: reading an index of an array changes nothing and raises no
\* error, also when there is no such index.
CallPeek(items) == [items |-> items, ret |-> peek(items), threw |-> "none"]

\* ------------------------------------------------------ TypedEventEmitter
\* class TypedEventEmitter, generics.ts:318-339.  listeners[e] is the entry of
\* the Map for the event e: has tells whether the key is there and set is the
\* Set of callbacks, in its iteration order (the order of insertion).
Events == {"data", "error"}
Callbacks == {"f", "g", "h"}
EmitArgs == {"hello events", "bye"}

IsIn(s, x) == \E k \in 1 .. Len(s) : s[k] = x

\* Set.prototype.add moving a value that is already there to the end.
SetAdd_Move(s, x) ==
    LET IsNot(y) == y # x
    IN  Append(SelectSeq(s, IsNot), x)

\* Set.prototype.add appending the value whether it is there or not.
SetAdd_Dup(s, x) == Append(s, x)

\* Set.prototype.add: a value already in the set keeps its place.
SetAdd(s, x) == IF IsIn(s, x) THEN s ELSE Append(s, x)

\* Set.prototype.delete.
SetDelete(s, x) ==
    LET IsNot(y) == y # x
    IN  SelectSeq(s, IsNot)

\* on(event, cb), generics.ts:321-325.
on(L, event, cb) ==
    LET set == IF L[event].has THEN L[event].set ELSE <<>>
    IN  [L EXCEPT ![event] = [has |-> TRUE, set |-> SetAdd(set, cb)]]

\* off calling delete on whatever listeners.get(event) returned.
off_NoOptional(L, event, cb) ==
    IF L[event].has
    THEN [listeners |-> [L EXCEPT ![event].set = SetDelete(@, cb)],
          threw |-> "none"]
    ELSE [listeners |-> L, threw |-> "TypeError"]

\* off(event, cb), generics.ts:327-330: the optional call set?.delete(cb) is
\* skipped when listeners.get(event) returned undefined.
off(L, event, cb) ==
    IF L[event].has
    THEN [listeners |-> [L EXCEPT ![event].set = SetDelete(@, cb)],
          threw |-> "none"]
    ELSE [listeners |-> L, threw |-> "none"]

\* emit(event, ...args), generics.ts:332-338, with callbacks that do not call
\* on or off: the invocations made, in order.
emit(L, event, arg) ==
    IF ~L[event].has THEN <<>>
    ELSE [k \in 1 .. Len(L[event].set) |->
             [cb |-> L[event].set[k], event |-> event, arg |-> arg]]

\* The for...of loop of emit, generics.ts:335-337, over a Set that the
\* callbacks change.  The Set iterator keeps an index into the Set's list of
\* entries, where a deleted entry leaves a hole and an added one goes to the
\* end; with the set as the sequence of the entries that are not holes, pos
\* is the number of them the iterator has passed.

\* The place of x in the sequence s without duplicates that holds it.
IndexOf(s, x) == CHOOSE k \in 1 .. Len(s) : s[k] = x

\* The iterator's position counted in the entries left, not moved when an
\* entry it has passed is deleted.
PosAfterDelete_Stay(s, pos, x) == pos

\* The iterator's position after delete(x) on the set s.
PosAfterDelete(s, pos, x) ==
    IF IsIn(s, x) /\ IndexOf(s, x) <= pos THEN pos - 1 ELSE pos

\* ------------------------------------------------------------- Repository
\* class Repository, generics.ts:166-170.  store[id] is the entry of the Map
\* for the key id: has tells whether the key is there, item is its value.
RepoIds == {"u1", "u2"}
RepoNames == {"Nia", "Zoe"}
RepoItems == [id : RepoIds, name : RepoNames]

\* What get() returns for a missing key: undefined.
NoEntry == [id |-> "", name |-> ""]

\* save keeping the item the key already has.
save_KeepFirst(store, item) ==
    IF store[item.id].has THEN store
    ELSE [store EXCEPT ![item.id] = [has |-> TRUE, item |-> item]]

\* save(item), generics.ts:168: Map.prototype.set under the key item.id.
save(store, item) == [store EXCEPT ![item.id] = [has |-> TRUE, item |-> item]]

\* get(id), generics.ts:169: Map.prototype.get.
get(store, id) == IF store[id].has THEN store[id].item ELSE NoEntry

\* ---------------------------------------------------------- CanTransition
\* conditional-types.ts:279-293.  A type is the set of the string literals it
\* is the union of (never is {}); true, false and boolean are {TRUE}, {FALSE}
\* and {TRUE, FALSE}.
FsmStates == {"idle", "loading", "success", "error"}

\* The string literals CanTransition is asked about: the states and one
\* string that is no state.
Literals == FsmStates \cup {"done"}

\* type ValidTransitions, conditional-types.ts:279-284.
ValidTransitions ==
    [f \in FsmStates |->
        CASE f = "idle" -> {"loading", "error"}
          [] f = "loading" -> {"success", "error"}
          [] f = "success" -> {"idle"}
          [] f = "error" -> {"idle", "loading"}]

\* ValidTransitions[From]: the indexed access with a union of keys is the
\* union of the properties' types.
IndexedAccess(From) == UNION {ValidTransitions[f] : f \in From}

\* CanTransition answering true whatever is asked.
CanTransition_Any(From, To) == {TRUE}

\* type CanTransition<From, To>, conditional-types.ts:286-287: To is a naked
\* type parameter, so the conditional type distributes over its members.
CanTransition(From, To) == {(t \in IndexedAccess(From)) : t \in To}

\* ------------------------------------------------------------- the actions

\* A call record: what was called, with what, on which list, and its outcome.
Call(op, index, value, pred, ret, threw) ==
    [op |-> op, index |-> index, value |-> value, pred |-> pred,
     ret |-> ret, threw |-> threw,
     pre |-> toArray(heap, head), preSize |-> size]

\* The fields after a call that ran on the list; mutator tells whether the call
\* was one of add, insertAt, removeAt, clear made while an iterator is open.
Commit(r, mutator) ==
    LET c == Compact(r.heap, r.head, it.cur)
    IN  /\ heap' = c.heap
        /\ head' = c.head
        /\ size' = r.size
        /\ it' = [it EXCEPT !.cur = c.cur,
                            !.dirty = it.dirty \/ (it.active /\ mutator)]

\* Under SpecIter the calls are not recorded (keep = FALSE): what is observed
\* there is what the iterator yields.
Record(keep, call) == last' = IF keep THEN call ELSE last

Add(v, keep) ==
    /\ Len(heap) < MaxNodes
    /\ Commit(add(heap, head, size, v), TRUE)
    /\ Record(keep, Call("add", 0, v, {}, Undefined, "none"))

InsertAt(index, v, keep) ==
    /\ InsertOutOfBounds(index, size) \/ Len(heap) < MaxNodes
    /\ LET r == insertAt(heap, head, size, index, v)
       IN  /\ Commit(r, TRUE)
           /\ Record(keep, Call("insertAt", index, v, {}, Undefined, r.threw))

RemoveAt(index, keep) ==
    LET r == removeAt(heap, head, size, index)
    IN  /\ Commit(r, TRUE)
        /\ Record(keep, Call("removeAt", index, Undefined, {}, r.ret, r.threw))

Find(p) ==
    /\ last' = Call("find", 0, Undefined, p, find(heap, head, p), "none")
    /\ UNCHANGED <<heap, head, size, it>>

Clear(keep) ==
    /\ Commit(clear(heap, head, size), TRUE)
    /\ Record(keep, Call("clear", 0, Undefined, {}, Undefined, "none"))

\* [Symbol.iterator](), generics.ts:294-296: the cursor starts at head.  snap is
\* the list's contents at that moment and out what next() has yielded since.
IterCreate ==
    /\ it' = [active |-> TRUE, cur |-> head, snap |-> toArray(heap, head),
              out |-> <<>>, done |-> FALSE, dirty |-> FALSE]
    /\ UNCHANGED <<heap, head, size, last>>

\* One next() call on the open iterator.
IterNext ==
    /\ it.active
    /\ Len(it.out) < MaxYield
    /\ LET s == IterStep(heap, it.cur)
           c == Compact(heap, head, s.cur)
       IN  /\ heap' = c.heap
           /\ head' = c.head
           /\ it' = [it EXCEPT !.cur = c.cur,
                               !.out = IF s.done THEN it.out
                                       ELSE Append(it.out, s.value),
                               !.done = s.done]
    /\ UNCHANGED <<size, last>>

\* The array a toArray() call returned earlier, after a later call left the
\* list with the fields h, hd.  toArray() fills a fresh array (generics.ts:267)
\* and add, insertAt, removeAt and clear write only head, _size and next links.
ArrAfterCall_Alias(a, h, hd) == toArray(h, hd)
ArrAfterCall(a, h, hd) == a

\* The values at positions 0 .. size() - 1 of the list, each reached by its
\* own walk from head.
ListElems == [i \in 1 .. size |-> heap[Walk(heap, head, i - 1)].value]

\* The last two of the arrays s followed by a.
LastTwo(s, a) == IF Len(s) < 2 THEN Append(s, a) ELSE <<s[2], a>>

\* toArray(), generics.ts:266-274.  out is the returned array, snap the values
\* the list held at the call, since the arrays returned since the last call of
\* add, insertAt, removeAt or clear (the last two of them).
ToArray ==
    /\ arr' = [taken |-> TRUE, out |-> toArray(heap, head), snap |-> ListElems,
               since |-> LastTwo(arr.since, toArray(heap, head))]
    /\ UNCHANGED <<heap, head, size, last, it>>

\* What a call of add, insertAt, removeAt or clear means for the array
\* returned before it.
Touched ==
    arr' = [arr EXCEPT !.out = ArrAfterCall(arr.out, heap', head'), !.since = <<>>]

\* The calls on the heap as the code leaves it: every node ever created stays
\* where it is, unlinked nodes keep their next link, nothing is renumbered.
RawCommit(r) ==
    /\ heap' = r.heap
    /\ head' = r.head
    /\ size' = r.size
    /\ UNCHANGED <<last, it, arr, js, otherVars>>

RawAdd(v) ==
    /\ Len(heap) < MaxAlloc
    /\ RawCommit(add(heap, head, size, v))

RawInsertAt(index, v) ==
    /\ Len(heap) < MaxAlloc
    /\ RawCommit(insertAt(heap, head, size, index, v))

RawRemoveAt(index) == RawCommit(removeAt(heap, head, size, index))

RawClear == RawCommit(clear(heap, head, size))

\* The list becomes LinkedList.fromArray(a).
FromArray(a, keep) ==
    /\ Len(a) <= MaxNodes
    /\ Commit(fromArray(a), TRUE)
    /\ Record(keep, Call("fromArray", 0, Undefined, {}, Undefined, "none"))

\* The compiled list after a call that left it with the fields r and returned
\* ret or threw.
JsCommit(r, ret, threw) ==
    LET c == Compact(r.heap, r.head, Undefined)
    IN  js' = [js EXCEPT !.heap = c.heap, !.head = c.head, !.size = r.size,
                         !.ret = ret, !.threw = threw, !.arr = <<>>]

\* The same call made on both lists.
BothFromArray(a) ==
    /\ FromArray(a, TRUE)
    /\ JsCommit(js_fromArray(a), Undefined, "none")

BothAdd(v) ==
    /\ Add(v, TRUE)
    /\ JsCommit(js_add(js.heap, js.head, js.size, v), Undefined, "none")

BothInsertAt(index, v) ==
    /\ InsertAt(index, v, TRUE)
    /\ LET r == js_insertAt(js.heap, js.head, js.size, index, v)
       IN  JsCommit(r, Undefined, r.threw)

BothRemoveAt(index) ==
    /\ RemoveAt(index, TRUE)
    /\ LET r == js_removeAt(js.heap, js.head, js.size, index)
       IN  JsCommit(r, r.ret, r.threw)

BothFind(p) ==
    /\ Find(p)
    /\ js' = [js EXCEPT !.ret = js_find(js.heap, js.head, p), !.threw = "none",
                        !.arr = <<>>]

BothClear ==
    /\ Clear(TRUE)
    /\ JsCommit(js_clear(js.heap, js.head, js.size), Undefined, "none")

\* toArray() on both: the array the class of generics.ts returns is
\* toArray(heap, head), which the call record keeps as pre; js.arr is the array
\* the compiled class returns.
BothToArray ==
    /\ last' = Call("toArray", 0, Undefined, {}, Undefined, "none")
    /\ UNCHANGED <<heap, head, size, it>>
    /\ js' = [js EXCEPT !.arr = js_toArray(js.heap, js.head), !.ret = Undefined,
                        !.threw = "none"]

\* One call of ensureHasLength.
EnsureHasLength(arg) ==
    LET r == ensureHasLength(arg)
    IN  /\ ehl' = [called |-> TRUE, arg |-> arg, ret |-> r.ret, threw |-> r.threw]
        /\ UNCHANGED <<restVars, heap, head, size, last, it, arr, js, deco, stack, emitter>>

\* The class definition `@logger class Person`, decorators.ts:18-27: logger
\* runs once and the class it returns is what Person names from then on.
Decorate ==
    /\ ~deco.decorated
    /\ deco' = [deco EXCEPT !.decorated = TRUE, !.console = logger(deco.console)]
    /\ UNCHANGED <<restVars, heap, head, size, last, it, arr, js, ehl, stack, emitter>>

\* `new Person()`, decorators.ts:29, step by step: the wrapper's constructor
\* calls super(...args), then its own field initialiser runs, then the rest
\* of its body, then the instance is returned to the caller.
NewPerson ==
    /\ deco.decorated
    /\ deco.pc = "idle"
    /\ Len(deco.instances) < MaxInstances
    /\ deco' = [deco EXCEPT !.pc = "super",
                            !.this = [name |-> "", age |-> Undefined]]
    /\ UNCHANGED <<restVars, heap, head, size, last, it, arr, js, ehl, stack, emitter>>

SuperCall ==
    /\ deco.pc = "super"
    /\ deco' = [deco EXCEPT !.pc = "fields", !.this = PersonFields(deco.this)]
    /\ UNCHANGED <<restVars, heap, head, size, last, it, arr, js, ehl, stack, emitter>>

FieldInit ==
    /\ deco.pc = "fields"
    /\ deco' = [deco EXCEPT !.pc = "body", !.this = WrapperFields(deco.this)]
    /\ UNCHANGED <<restVars, heap, head, size, last, it, arr, js, ehl, stack, emitter>>

CtorBody ==
    /\ deco.pc = "body"
    /\ deco' = [deco EXCEPT !.pc = "return",
                            !.console = WrapperBody(deco.console,
                                                    Len(deco.instances) + 1)]
    /\ UNCHANGED <<restVars, heap, head, size, last, it, arr, js, ehl, stack, emitter>>

CtorReturn ==
    /\ deco.pc = "return"
    /\ deco' = [deco EXCEPT !.pc = "idle",
                            !.instances = Append(deco.instances, deco.this)]
    /\ UNCHANGED <<restVars, heap, head, size, last, it, arr, js, ehl, stack, emitter>>

\* `max.greet()`, decorators.ts:30, on the i-th instance the caller holds.
Greet(i) ==
    /\ deco.pc = "idle"
    /\ i \in 1 .. Len(deco.instances)
    /\ Len(deco.console) < MaxConsole
    /\ deco' = [deco EXCEPT !.console = greet(deco.console, deco.instances[i], i)]
    /\ UNCHANGED <<restVars, heap, head, size, last, it, arr, js, ehl, stack, emitter>>

\* `console.log(max)`, decorators.ts:31.
ShowPerson(i) ==
    /\ deco.pc = "idle"
    /\ i \in 1 .. Len(deco.instances)
    /\ Len(deco.console) < MaxConsole
    /\ deco' = [deco EXCEPT !.console =
                    Append(deco.console, Line(<<"Person">>, i))]
    /\ UNCHANGED <<restVars, heap, head, size, last, it, arr, js, ehl, stack, emitter>>

Push(v) ==
    /\ Len(stack.log) < MaxPushes
    /\ stack' = [stack EXCEPT
                    !.items = push(stack.items, [v |-> v, n |-> Len(stack.log) + 1]),
                    !.log = Append(stack.log, v),
                    !.op = "push",
                    !.ret = NoItem,
                    !.threw = "none"]
    /\ UNCHANGED <<restVars, heap, head, size, last, it, arr, js, ehl, deco, emitter>>

Pop ==
    LET r == CallPop(stack.items)
    IN  /\ stack' = [stack EXCEPT
                        !.items = r.items,
                        !.popped = IF r.ret = NoItem THEN stack.popped
                                   ELSE stack.popped \cup {r.ret.n},
                        !.op = "pop",
                        !.ret = r.ret,
                        !.threw = r.threw]
        /\ UNCHANGED <<restVars, heap, head, size, last, it, arr, js, ehl, deco, emitter>>

Peek ==
    /\ LET r == CallPeek(stack.items)
       IN  stack' = [stack EXCEPT !.items = r.items, !.op = "peek",
                                  !.ret = r.ret, !.threw = r.threw]
    /\ UNCHANGED <<restVars, heap, head, size, last, it, arr, js, ehl, deco, emitter>>

On(event, cb) ==
    /\ emitter.clock < MaxOn
    /\ LET t == emitter.clock + 1
       IN  emitter' = [emitter EXCEPT
               !.listeners = on(emitter.listeners, event, cb),
               !.clock = t,
               !.first[event, cb] = IF @ = 0 THEN t ELSE @,
               !.added[event, cb] = IF @ = 0 THEN t ELSE @,
               !.op = "on", !.event = event, !.cb = cb, !.arg = "",
               !.calls = <<>>, !.threw = "none"]
    /\ UNCHANGED <<restVars, heap, head, size, last, it, arr, js, ehl, deco, stack>>

Off(event, cb) ==
    /\ LET r == off(emitter.listeners, event, cb)
       IN  emitter' = [emitter EXCEPT
               !.listeners = r.listeners,
               !.added[event, cb] = 0,
               !.op = "off", !.event = event, !.cb = cb, !.arg = "",
               !.calls = <<>>, !.threw = r.threw]
    /\ UNCHANGED <<restVars, heap, head, size, last, it, arr, js, ehl, deco, stack>>

Emit(event, arg) ==
    /\ emitter' = [emitter EXCEPT
               !.op = "emit", !.event = event, !.cb = "", !.arg = arg,
               !.calls = emit(emitter.listeners, event, arg),
               !.threw = "none"]
    /\ UNCHANGED <<restVars, heap, head, size, last, it, arr, js, ehl, deco, stack>>

Save(item) ==
    /\ Len(repo.saved) < MaxSaves
    /\ repo' = [repo EXCEPT !.store = save(repo.store, item),
                            !.saved = Append(repo.saved, item),
                            !.op = "save", !.id = item.id, !.ret = NoEntry]
    /\ UNCHANGED <<heap, head, size, last, it, arr, js, ehl, deco, stack, emitter,
                   fsm, live, pair, twin>>

Get(id) ==
    /\ repo' = [repo EXCEPT !.op = "get", !.id = id, !.ret = get(repo.store, id)]
    /\ UNCHANGED <<heap, head, size, last, it, arr, js, ehl, deco, stack, emitter,
                   fsm, live, pair, twin>>

\* The type CanTransition<From, To> is evaluated.
Ask(From, To) ==
    /\ fsm' = [fsm EXCEPT !.asked = TRUE, !.from = From, !.to = To,
                          !.result = CanTransition(From, To)]
    /\ UNCHANGED <<heap, head, size, last, it, arr, js, ehl, deco, stack, emitter,
                   repo, live, pair, twin>>

\* A transition the type CanTransition<state, to> accepts is taken.
Transition(to) ==
    /\ Len(fsm.path) < MaxSteps
    /\ CanTransition({fsm.state}, {to}) = {TRUE}
    /\ fsm' = [fsm EXCEPT !.state = to, !.path = Append(fsm.path, fsm.state)]
    /\ UNCHANGED <<heap, head, size, last, it, arr, js, ehl, deco, stack, emitter,
                   repo, live, pair, twin>>

\* The emitter whose callbacks call on and off.  While an emit runs, tick
\* numbers the on and off calls and the invocations; calls is the invocations
\* made, onAt[c] the on call that last added c to the event's set, offAt[c]
\* the off call that last removed it, firstOff[c] the first off call that
\* removed c when this emit had not invoked it (0: none).
LiveGhostReset(l) ==
    [l EXCEPT !.calls = <<>>, !.returned = FALSE,
              !.onAt = [c \in Callbacks |-> 0],
              !.offAt = [c \in Callbacks |-> 0],
              !.firstOff = [c \in Callbacks |-> 0]]

LiveInvoked == {live.calls[k].cb : k \in 1 .. Len(live.calls)}

\* on(event, cb), called between emits or by the callback being invoked.
LiveOn(event, cb) ==
    /\ live.tick < MaxTick
    /\ live.running => live.calls # <<>>
    /\ LET t == live.tick + 1
           l == [live EXCEPT !.listeners = on(live.listeners, event, cb),
                             !.tick = t]
           new == ~IsIn(live.listeners[event].set, cb)
       IN  live' = IF live.running /\ event = live.event /\ new
                   THEN [l EXCEPT !.onAt[cb] = t]
                   ELSE l
    /\ UNCHANGED <<heap, head, size, last, it, arr, js, ehl, deco, stack, emitter,
                   repo, fsm, pair, twin>>

\* off(event, cb), called between emits or by the callback being invoked.
LiveOff(event, cb) ==
    /\ live.tick < MaxTick
    /\ live.running => live.calls # <<>>
    /\ LET t == live.tick + 1
           set == live.listeners[event].set
           l == [live EXCEPT
                    !.listeners = off(live.listeners, event, cb).listeners,
                    !.tick = t]
       IN  live' = IF live.running /\ event = live.event /\ IsIn(set, cb)
                   THEN [l EXCEPT
                           !.pos = PosAfterDelete(set, live.pos, cb),
                           !.offAt[cb] = t,
                           !.firstOff[cb] =
                               IF @ = 0 /\ cb \notin LiveInvoked THEN t ELSE @]
                   ELSE l
    /\ UNCHANGED <<heap, head, size, last, it, arr, js, ehl, deco, stack, emitter,
                   repo, fsm, pair, twin>>

\* emit(event) is called, generics.ts:332-334: it returns at once when the
\* event has no set, and otherwise begins the loop.
LiveEmit(event) ==
    /\ ~live.running
    /\ live' = [LiveGhostReset(live) EXCEPT
                   !.event = event,
                   !.pos = 0,
                   !.running = live.listeners[event].has,
                   !.returned = ~live.listeners[event].has]
    /\ UNCHANGED <<heap, head, size, last, it, arr, js, ehl, deco, stack, emitter,
                   repo, fsm, pair, twin>>

\* One turn of the loop, generics.ts:335-336: the next callback is invoked.
LiveInvoke ==
    /\ live.running
    /\ live.tick < MaxTick
    /\ live.pos < Len(live.listeners[live.event].set)
    /\ live' = [live EXCEPT
                   !.tick = live.tick + 1,
                   !.pos = live.pos + 1,
                   !.calls = Append(live.calls,
                       [cb |-> live.listeners[live.event].set[live.pos + 1],
                        tick |-> live.tick + 1])]
    /\ UNCHANGED <<heap, head, size, last, it, arr, js, ehl, deco, stack, emitter,
                   repo, fsm, pair, twin>>

\* The loop ends, generics.ts:337-338: the iterator is at the end of the set.
LiveReturn ==
    /\ live.running
    /\ live.pos = Len(live.listeners[live.event].set)
    /\ live' = [live EXCEPT !.running = FALSE, !.returned = TRUE]
    /\ UNCHANGED <<heap, head, size, last, it, arr, js, ehl, deco, stack, emitter,
                   repo, fsm, pair, twin>>

\* A call made on the list: pair keeps it together with the call before it
\* (prev...) and the list as it was before that one (pre2, pre2Size); arg is
\* the array given to fromArray.
PairCall(op, index, value, arg, ret, threw) ==
    [op |-> op, index |-> index, value |-> value, arg |-> arg, ret |-> ret,
     threw |-> threw, pre |-> toArray(heap, head), preSize |-> size,
     prevOp |-> pair.op, prevIndex |-> pair.index, prevValue |-> pair.value,
     pre2 |-> pair.pre, pre2Size |-> pair.preSize]

\* The second list after a call that left it with the fields r.
TwinCommit(r, threw) ==
    LET c == Compact(r.heap, r.head, Undefined)
    IN  twin' = [heap |-> c.heap, head |-> c.head, size |-> r.size,
                 threw |-> threw]

AlgCommit(r) ==
    /\ Commit(r, TRUE)
    /\ UNCHANGED <<last, arr, js, ehl, deco, stack, emitter, repo, fsm, live>>

\* Both lists become LinkedList.fromArray(a).
AlgFromArray(a) ==
    /\ AlgCommit(fromArray(a))
    /\ TwinCommit(fromArray(a), "none")
    /\ pair' = PairCall("fromArray", 0, Undefined, a, Undefined, "none")

\* add(v) on the list, insertAt(size(), v) on the second list.
AlgAdd(v) ==
    /\ Len(heap) < MaxAlgNodes
    /\ AlgCommit(add(heap, head, size, v))
    /\ LET r == insertAt(twin.heap, twin.head, twin.size, twin.size, v)
       IN  TwinCommit(r, r.threw)
    /\ pair' = PairCall("add", 0, v, <<>>, Undefined, "none")

AlgInsertAt(index, v) ==
    /\ InsertOutOfBounds(index, size) \/ Len(heap) < MaxAlgNodes
    /\ LET r == insertAt(heap, head, size, index, v)
           t == insertAt(twin.heap, twin.head, twin.size, index, v)
       IN  /\ AlgCommit(r)
           /\ TwinCommit(t, t.threw)
           /\ pair' = PairCall("insertAt", index, v, <<>>, Undefined, r.threw)

AlgRemoveAt(index) ==
    LET r == removeAt(heap, head, size, index)
        t == removeAt(twin.heap, twin.head, twin.size, index)
    IN  /\ AlgCommit(r)
        /\ TwinCommit(t, t.threw)
        /\ pair' = PairCall("removeAt", index, Undefined, <<>>, r.ret, r.threw)

AlgClear ==
    /\ AlgCommit(clear(heap, head, size))
    /\ TwinCommit(clear(twin.heap, twin.head, twin.size), "none")
    /\ pair' = PairCall("clear", 0, Undefined, <<>>, Undefined, "none")

\* A call of one of the reading methods, which left the fields r.
ReadCall(op, p, r) ==
    /\ Commit(r, FALSE)
    /\ last' = Call(op, 0, Undefined, p, r.ret, "none")
    /\ UNCHANGED <<arr, js, otherVars>>

ReadFind(p) == ReadCall("find", p, CallFind(heap, head, size, p))

ReadToArray == ReadCall("toArray", {}, CallToArray(heap, head, size))

ReadSize == ReadCall("size", {}, CallSize(heap, head, size))

ReadForEach == ReadCall("forEach", {}, CallForEach(heap, head, size))

ReadIterate == ReadCall("iterate", {}, CallIterate(heap, head, size))

\* ------------------------------------------------------- the specifications

NoCall ==
    [op |-> "new", index |-> 0, value |-> Undefined, pred |-> {},
     ret |-> Undefined, threw |-> "none", pre |-> <<>>, preSize |-> 0]

NoIter ==
    [active |-> FALSE, cur |-> Undefined, snap |-> <<>>, out |-> <<>>,
     done |-> FALSE, dirty |-> FALSE]

\* No toArray() call made yet.
NoArr == [taken |-> FALSE, out |-> <<>>, snap |-> <<>>, since |-> <<>>]

\* new LinkedList() of the compiled class, decorators.ts:168-170.
NoJs == [heap |-> <<>>, head |-> Undefined, size |-> 0,
         ret |-> Undefined, threw |-> "none", arr |-> <<>>]
\* (js.arr is the array the last call returned when that call was toArray().)

\* No ensureHasLength call made yet.
NoEhl == [called |-> FALSE, arg |-> NoArg, ret |-> NoArg, threw |-> "none"]

\* decorators.ts before its first statement runs.
NoDeco == [decorated |-> FALSE, console |-> <<>>, instances |-> <<>>,
           pc |-> "idle", this |-> [name |-> "", age |-> Undefined]]

\* new Stack(), generics.ts:36: no items.  log is the values pushed so far, in
\* order, and popped the pushes whose item a pop() has returned.
NoStack == [items |-> <<>>, log |-> <<>>, popped |-> {}, op |-> "new",
            ret |-> NoItem, threw |-> "none"]

\* new TypedEventEmitter(), generics.ts:319: no listeners.  clock counts the
\* on() calls; first[e, c] is the on() call that registered c for e for the
\* first time and added[e, c] the one since which c has been registered for e
\* (0: never, not registered); calls is what the last emit invoked; op, event,
\* cb and arg are the last call and threw the error it raised.
NoEmitter ==
    [listeners |-> [e \in Events |-> [has |-> FALSE, set |-> <<>>]],
     clock |-> 0,
     first |-> [e \in Events, c \in Callbacks |-> 0],
     added |-> [e \in Events, c \in Callbacks |-> 0],
     op |-> "new", event |-> "", cb |-> "", arg |-> "", calls |-> <<>>,
     threw |-> "none"]

\* new Repository(), generics.ts:167: an empty store.  saved is the items
\* passed to save() so far, in order.
NoRepo == [store |-> [i \in RepoIds |-> [has |-> FALSE, item |-> NoEntry]],
           saved |-> <<>>, op |-> "new", id |-> "", ret |-> NoEntry]

\* The machine starts in idle; path is the states it has left, in order, and
\* result the last CanTransition<from, to> evaluated.
NoFsm == [state |-> "idle", path |-> <<>>, asked |-> FALSE,
          from |-> {}, to |-> {}, result |-> {}]

\* new TypedEventEmitter(), generics.ts:319, with no emit running.
NoLive ==
    [listeners |-> [e \in Events |-> [has |-> FALSE, set |-> <<>>]],
     running |-> FALSE, returned |-> FALSE, event |-> "", pos |-> 0,
     tick |-> 0, calls |-> <<>>,
     onAt |-> [c \in Callbacks |-> 0],
     offAt |-> [c \in Callbacks |-> 0],
     firstOff |-> [c \in Callbacks |-> 0]]

\* No call made yet on the list.
NoPair ==
    [op |-> "new", index |-> 0, value |-> Undefined, arg |-> <<>>,
     ret |-> Undefined, threw |-> "none", pre |-> <<>>, preSize |-> 0,
     prevOp |-> "new", prevIndex |-> 0, prevValue |-> Undefined,
     pre2 |-> <<>>, pre2Size |-> 0]

\* new LinkedList(), generics.ts:206-207, for the second list.
NoTwin == [heap |-> <<>>, head |-> Undefined, size |-> 0, threw |-> "none"]

\* The examples the specification at hand is not about stay as constructed.
InitOthers ==
    /\ ehl = NoEhl
    /\ deco = NoDeco
    /\ stack = NoStack
    /\ emitter = NoEmitter
    /\ repo = NoRepo
    /\ fsm = NoFsm
    /\ live = NoLive
    /\ pair = NoPair
    /\ twin = NoTwin

\* new LinkedList(), generics.ts:206-207: no head, _size = 0.
InitList ==
    /\ heap = <<>>
    /\ head = Undefined
    /\ size = 0
    /\ last = NoCall
    /\ it = NoIter
    /\ arr = NoArr
    /\ js = NoJs

Init == InitList /\ InitOthers

\* Any sequence of calls on one list.
Next ==
    \/ \E v \in Values : Add(v, TRUE) /\ UNCHANGED <<arr, js, otherVars>>
    \/ \E i \in Indexes, v \in Values :
          InsertAt(i, v, TRUE) /\ UNCHANGED <<arr, js, otherVars>>
    \/ \E i \in Indexes : RemoveAt(i, TRUE) /\ UNCHANGED <<arr, js, otherVars>>
    \/ \E p \in Preds : Find(p) /\ UNCHANGED <<arr, js, otherVars>>
    \/ Clear(TRUE) /\ UNCHANGED <<arr, js, otherVars>>

Spec == Init /\ [][Next]_vars

\* Calls on one list interleaved with the next() calls of an iterator over it.
NextIter ==
    \/ \E v \in IterValues :
          Len(heap) < MaxIterNodes /\ Add(v, FALSE) /\ UNCHANGED <<arr, js, otherVars>>
    \/ \E i \in 0 .. MaxIterNodes, v \in IterValues :
          /\ Len(heap) < MaxIterNodes
          /\ InsertAt(i, v, FALSE)
          /\ UNCHANGED <<arr, js, otherVars>>
    \/ \E i \in 0 .. MaxIterNodes : RemoveAt(i, FALSE) /\ UNCHANGED <<arr, js, otherVars>>
    \/ Clear(FALSE) /\ UNCHANGED <<arr, js, otherVars>>
    \/ IterCreate /\ UNCHANGED <<arr, js, otherVars>>
    \/ IterNext /\ UNCHANGED <<arr, js, otherVars>>

SpecIter == Init /\ [][NextIter]_vars

\* Calls on one list interleaved with toArray() calls and with the next()
\* calls of an iterator over it.
NextRead ==
    \/ \E v \in IterValues :
          /\ Len(heap) < MaxReadNodes
          /\ Add(v, FALSE)
          /\ Touched
          /\ UNCHANGED <<js, otherVars>>
    \/ \E i \in 0 .. MaxReadNodes, v \in IterValues :
          /\ Len(heap) < MaxReadNodes
          /\ InsertAt(i, v, FALSE)
          /\ Touched
          /\ UNCHANGED <<js, otherVars>>
    \/ \E i \in 0 .. MaxReadNodes :
          RemoveAt(i, FALSE) /\ Touched /\ UNCHANGED <<js, otherVars>>
    \/ Clear(FALSE) /\ Touched /\ UNCHANGED <<js, otherVars>>
    \/ ToArray /\ UNCHANGED <<js, otherVars>>
    \/ IterCreate /\ UNCHANGED <<arr, js, otherVars>>
    \/ IterNext /\ UNCHANGED <<arr, js, otherVars>>

SpecRead == Init /\ [][NextRead]_vars

\* Any sequence of calls on one list, on the heap as the code leaves it.
NextRaw ==
    \/ \E v \in IterValues : RawAdd(v)
    \/ \E i \in (-1) .. (MaxAlloc + 1), v \in IterValues : RawInsertAt(i, v)
    \/ \E i \in (-1) .. (MaxAlloc + 1) : RawRemoveAt(i)
    \/ RawClear

SpecRaw == Init /\ [][NextRaw]_vars

\* The arrays over IterValues of at most n elements.
ArraysUpTo(n) == UNION {[1 .. k -> IterValues] : k \in 0 .. n}

\* The same sequence of calls on the class of generics.ts and on the compiled
\* class of decorators.ts.
NextBoth ==
    \/ \E a \in ArraysUpTo(MaxBothNodes) :
          BothFromArray(a) /\ UNCHANGED <<arr, otherVars>>
    \/ \E v \in IterValues :
          Len(heap) < MaxBothNodes /\ BothAdd(v) /\ UNCHANGED <<arr, otherVars>>
    \/ \E i \in (-1) .. (MaxBothNodes + 1), v \in IterValues :
          /\ Len(heap) < MaxBothNodes
          /\ BothInsertAt(i, v)
          /\ UNCHANGED <<arr, otherVars>>
    \/ \E i \in (-1) .. (MaxBothNodes + 1) :
          BothRemoveAt(i) /\ UNCHANGED <<arr, otherVars>>
    \/ \E p \in SUBSET IterValues : BothFind(p) /\ UNCHANGED <<arr, otherVars>>
    \/ BothClear /\ UNCHANGED <<arr, otherVars>>
    \/ BothToArray /\ UNCHANGED <<arr, otherVars>>

SpecBoth == Init /\ [][NextBoth]_vars

\* Any sequence of ensureHasLength calls.
NextLen == \E arg \in HasLengthArgs : EnsureHasLength(arg)

SpecLen == Init /\ [][NextLen]_vars

\* The statements of decorators.ts:1-31, with any number of constructions and
\* greetings after the class definition.
NextDeco ==
    \/ Decorate
    \/ NewPerson
    \/ SuperCall
    \/ FieldInit
    \/ CtorBody
    \/ CtorReturn
    \/ \E i \in 1 .. MaxInstances : Greet(i)
    \/ \E i \in 1 .. MaxInstances : ShowPerson(i)

SpecDeco == Init /\ [][NextDeco]_vars

\* Any sequence of push, pop and peek calls on one Stack.
NextStack ==
    \/ \E v \in StackValues : Push(v)
    \/ Pop
    \/ Peek

SpecStack == Init /\ [][NextStack]_vars

\* Any sequence of on, off and emit calls on one emitter.
NextEmitter ==
    \/ \E e \in Events, c \in Callbacks : On(e, c)
    \/ \E e \in Events, c \in Callbacks : Off(e, c)
    \/ \E e \in Events, a \in EmitArgs : Emit(e, a)

SpecEmitter == Init /\ [][NextEmitter]_vars

\* Any sequence of on, off and emit calls on one emitter, with fewer on calls:
\* here each step is compared with the state before it.
NextIdem ==
    \/ \E e \in Events, c \in Callbacks : emitter.clock < MaxIdemOn /\ On(e, c)
    \/ \E e \in Events, c \in Callbacks : Off(e, c)
    \/ \E e \in Events, a \in EmitArgs : Emit(e, a)

SpecIdem == Init /\ [][NextIdem]_vars

\* Any sequence of on, off and emit calls on one emitter whose callbacks call
\* on and off.
NextLive ==
    \/ \E e \in Events, c \in Callbacks : LiveOn(e, c)
    \/ \E e \in Events, c \in Callbacks : LiveOff(e, c)
    \/ \E e \in Events : LiveEmit(e)
    \/ LiveInvoke
    \/ LiveReturn

SpecLive == Init /\ [][NextLive]_vars

\* Any sequence of calls on one list, a second list being given the same
\* calls but for add(v), in whose place it is given insertAt(size(), v).
NextAlg ==
    \/ \E v \in IterValues : AlgAdd(v)
    \/ \E i \in (-1) .. MaxAlgNodes, v \in IterValues : AlgInsertAt(i, v)
    \/ \E i \in (-1) .. MaxAlgNodes : AlgRemoveAt(i)
    \/ AlgClear

SpecAlg == Init /\ [][NextAlg]_vars

\* Lists made from arrays, and added to and cleared in between.
NextTrip ==
    \/ \E a \in ArraysUpTo(MaxAlgNodes) : AlgFromArray(a)
    \/ \E v \in IterValues : AlgAdd(v)
    \/ AlgClear

SpecTrip == Init /\ [][NextTrip]_vars

\* Any sequence of calls on one list, the reading methods included.
NextFrame ==
    \/ \E v \in IterValues :
          Len(heap) < MaxIterNodes /\ Add(v, TRUE) /\ UNCHANGED <<arr, js, otherVars>>
    \/ \E i \in 0 .. MaxIterNodes, v \in IterValues :
          /\ Len(heap) < MaxIterNodes
          /\ InsertAt(i, v, TRUE)
          /\ UNCHANGED <<arr, js, otherVars>>
    \/ \E i \in 0 .. MaxIterNodes :
          RemoveAt(i, TRUE) /\ UNCHANGED <<arr, js, otherVars>>
    \/ Clear(TRUE) /\ UNCHANGED <<arr, js, otherVars>>
    \/ \E p \in SUBSET IterValues : ReadFind(p)
    \/ ReadToArray
    \/ ReadSize
    \/ ReadForEach
    \/ ReadIterate

SpecFrame == Init /\ [][NextFrame]_vars

\* Any sequence of save and get calls on one repository.
NextRepo ==
    \/ \E item \in RepoItems : Save(item)
    \/ \E id \in RepoIds : Get(id)

SpecRepo == Init /\ [][NextRepo]_vars

\* CanTransition asked of any types, and any run of accepted transitions.
NextFsm ==
    \/ \E From \in SUBSET FsmStates, To \in SUBSET Literals : Ask(From, To)
    \/ \E to \in Literals : Transition(to)

SpecFsm == Init /\ [][NextFsm]_vars

\* ---------------------------------------------------------------- claims
\* The list as a sequence, and the sequence operations the methods are
\* compared with.  Positions are 0-based, as in the code.

Contents == toArray(heap, head)

InsertSeq(s, i, v) == SubSeq(s, 1, i) \o <<v>> \o SubSeq(s, i + 1, Len(s))

DeleteSeq(s, i) == SubSeq(s, 1, i) \o SubSeq(s, i + 2, Len(s))

IsPrefix(s, t) == Len(s) <= Len(t) /\ SubSeq(t, 1, Len(s)) = s

FirstMatch(s, p) ==
    IF \E i \in 1 .. Len(s) : s[i] \in p
    THEN s[CHOOSE i \in 1 .. Len(s) :
               s[i] \in p /\ \A j \in 1 .. (i - 1) : s[j] \notin p]
    ELSE Undefined

\* C1: insertAt(index, value) succeeds exactly when 0 <= index <= size(), and
\* in every other case throws RangeError to the caller (and nothing else).
C1_InsertAtRange ==
    last.op = "insertAt" =>
        /\ (last.threw = "none") <=> (0 <= last.index /\ last.index <= last.preSize)
        /\ last.threw \in {"none", "RangeError"}

\* insertAt one past the end of a non-empty list threw RangeError.
C1_Witness ==
    /\ last.op = "insertAt"
    /\ last.preSize > 0
    /\ last.index = last.preSize + 1
    /\ last.threw = "RangeError"

\* C2: after insertAt(i, v) with 0 <= i <= size() on contents s, the contents
\* are s[0..i), v, s[i..).
C2_InsertAtContents ==
    (last.op = "insertAt" /\ 0 <= last.index /\ last.index <= last.preSize) =>
        Contents = InsertSeq(last.pre, last.index, last.value)

\* insertAt(2, 99) on [1,2,3] gave [1,2,99,3].
C2_Witness ==
    /\ last.op = "insertAt"
    /\ last.pre = <<1, 2, 3>>
    /\ last.index = 2
    /\ last.value = 99
    /\ Contents = <<1, 2, 99, 3>>

\* C3: insertAt(i, v) with 0 <= i <= size() increases size() by exactly 1.
C3_InsertAtSize ==
    (last.op = "insertAt" /\ 0 <= last.index /\ last.index <= last.preSize) =>
        size = last.preSize + 1

\* An insert strictly inside a list raised its size by one.
C3_Witness ==
    /\ last.op = "insertAt"
    /\ 0 < last.index
    /\ last.index < last.preSize
    /\ size = last.preSize + 1

\* C4: removeAt(i) with 0 <= i < size() on contents s returns s[i], leaves s
\* with position i deleted, and decreases size() by exactly 1.
C4_RemoveAtInRange ==
    (last.op = "removeAt" /\ 0 <= last.index /\ last.index < last.preSize) =>
        /\ last.threw = "none"
        /\ last.ret = last.pre[last.index + 1]
        /\ Contents = DeleteSeq(last.pre, last.index)
        /\ size = last.preSize - 1

\* removeAt(2) on [1,2,99,3] returned 99 and left [1,2,3].
C4_Witness ==
    /\ last.op = "removeAt"
    /\ last.pre = <<1, 2, 99, 3>>
    /\ last.index = 2
    /\ last.ret = 99
    /\ Contents = <<1, 2, 3>>
    /\ size = 3

\* C5: removeAt(i) for i outside [0, size()) returns undefined, throws
\* nothing, and leaves size() as it was.
C5_RemoveAtOutOfRange ==
    (last.op = "removeAt" /\ (last.index < 0 \/ last.index >= last.preSize)) =>
        /\ last.ret = Undefined
        /\ last.threw = "none"
        /\ size = last.preSize

\* removeAt(-1) on a list of at least two elements returned undefined.
C5_Witness ==
    /\ last.op = "removeAt"
    /\ last.index = -1
    /\ last.preSize >= 2
    /\ last.ret = Undefined
    /\ size = last.preSize

\* C6: after any sequence of add, insertAt, removeAt and clear calls, size()
\* is the number of nodes reachable from head (the length of toArray()).
C6_SizeIsLength == size = Len(Contents)

\* A list of two or more elements right after a removeAt that removed one.
C6_Witness ==
    /\ last.op = "removeAt"
    /\ last.ret # Undefined
    /\ size >= 2
    /\ size = Len(Contents)

\* C7: find(predicate) returns the first element in list order that satisfies
\* the predicate, and undefined when none does.
C7_FindFirst ==
    last.op = "find" => last.ret = FirstMatch(Contents, last.pred)

\* find(v => v > 50) on [1,2,99,3] returned 99.
C7_Witness ==
    /\ last.op = "find"
    /\ Contents = <<1, 2, 99, 3>>
    /\ last.pred = {99}
    /\ last.ret = 99

\* C8: add(value) on contents s gives s followed by value and increases
\* size() by exactly 1, for the empty list as for the others.
C8_AddAppends ==
    last.op = "add" =>
        /\ Contents = Append(last.pre, last.value)
        /\ size = last.preSize + 1

\* add on a list of two or more elements put the value last.
C8_Witness ==
    /\ last.op = "add"
    /\ Len(last.pre) >= 2
    /\ Contents = Append(last.pre, last.value)

\* C9: after clear(), whatever the list held, size() is 0 and the list is
\* empty, and an add(v) that follows yields exactly [v].
C9_ClearEmpties ==
    /\ [](last.op = "clear" => (size = 0 /\ Contents = <<>>))
    /\ [][(last.op = "clear" /\ last'.op = "add") =>
              (toArray(heap', head') = <<last'.value>> /\ size' = 1)]_vars

\* clear() was called on a list of two or more elements.
C9_Witness ==
    /\ last.op = "clear"
    /\ Len(last.pre) >= 2
    /\ size = 0
    /\ Contents = <<>>

\* C10 as stated: what an iterator yields is the list's contents at the time
\* the iterator was created, whatever calls are interleaved with next().
C10_IterIsSnapshot ==
    it.active =>
        /\ IsPrefix(it.out, it.snap)
        /\ it.done => it.out = it.snap

\* C10 as amended: the iterator is a live cursor; it yields the contents at
\* its creation when no add, insertAt, removeAt or clear call is made between
\* its creation and its next() calls.
C10_IterSnapshotIfUnmutated ==
    (it.active /\ ~it.dirty) =>
        /\ IsPrefix(it.out, it.snap)
        /\ it.done => it.out = it.snap

\* An iterator over two or more elements ran to done with no call in between.
C10_Witness ==
    /\ it.active
    /\ ~it.dirty
    /\ it.done
    /\ Len(it.snap) >= 2
    /\ it.out = it.snap

\* C13: an out-of-bounds call leaves the list as it was: after an insertAt
\* that threw RangeError and after a removeAt with an index outside
\* [0, size()), the contents and size() are those before the call.
C13_OutOfBoundsNoChange ==
    (\/ last.op = "insertAt" /\ last.threw = "RangeError"
     \/ last.op = "removeAt" /\ (last.index < 0 \/ last.index >= last.preSize)) =>
        /\ Contents = last.pre
        /\ size = last.preSize

\* insertAt(-1, v) threw on a list of two or more elements, which it left alone.
C13_Witness ==
    /\ last.op = "insertAt"
    /\ last.index = -1
    /\ last.threw = "RangeError"
    /\ Len(last.pre) >= 2
    /\ Contents = last.pre

\* C11: the array toArray() returned holds the values the list held at the
\* call, in list order, and keeps them whatever add, insertAt, removeAt or
\* clear calls are made on the list afterwards.
C11_ToArraySnapshot == arr.taken => arr.out = arr.snap

\* An array of two elements, returned before a call that changed the list.
C11_Witness ==
    /\ arr.taken
    /\ arr.since = <<>>
    /\ Len(arr.out) = 2
    /\ arr.out = arr.snap
    /\ toArray(heap, head) # arr.out

\* C12: with no add, insertAt, removeAt or clear call in between, successive
\* toArray() calls return the same values in the same order, and an iterator
\* yields those values from the first on and reports done exactly after the
\* last of them.
C12_Restartable ==
    /\ \A i, j \in 1 .. Len(arr.since) : arr.since[i] = arr.since[j]
    /\ (arr.since # <<>> /\ it.active /\ ~it.dirty) =>
          /\ IsPrefix(it.out, arr.since[1])
          /\ it.done => it.out = arr.since[1]

\* Two toArray() calls and an iterator run to done, with no call in between,
\* on a list of two elements.
C12_Witness ==
    /\ Len(arr.since) = 2
    /\ Len(arr.since[1]) = 2
    /\ it.active
    /\ ~it.dirty
    /\ it.done
    /\ it.out = arr.since[2]

\* C14: every traversal terminates: from head (add, find, toArray, forEach)
\* and from every node an iterator may still hold, following next falls off
\* the chain within as many steps as there are nodes, so no chain has a cycle.
C14_ChainsEnd ==
    \A c \in {head} \cup (1 .. Len(heap)) : Walk(heap, c, Len(heap)) = Undefined

\* A list of two or more nodes beside an unlinked node that still points into it.
C14_Witness ==
    /\ size >= 2
    /\ Len(toArray(heap, head)) = size
    /\ \E n \in 1 .. Len(heap) :
          /\ \A i \in 0 .. (size - 1) : Walk(heap, head, i) # n
          /\ heap[n].next # Undefined
    /\ Walk(heap, head, Len(heap)) = Undefined

\* C15: given the same fromArray, add, insertAt, removeAt, find, clear and
\* toArray calls, the class of generics.ts and the compiled class of
\* decorators.ts return the same values, throw the same errors, and hold the
\* same contents and size.
C15_SameContainer ==
    /\ js_toArray(js.heap, js.head) = toArray(heap, head)
    /\ js.size = size
    /\ js.ret = last.ret
    /\ js.threw = last.threw
    /\ last.op = "toArray" => js.arr = last.pre

\* Both lists returned the same value from a removeAt inside a list of three.
C15_Witness ==
    /\ last.op = "removeAt"
    /\ last.preSize = 3
    /\ last.index = 1
    /\ js.ret = last.ret
    /\ js.ret # Undefined
    /\ js.size = 2
    /\ js_toArray(js.heap, js.head) = DeleteSeq(last.pre, 1)

\* C16: ensureHasLength(arg) throws the 'Empty' error exactly when arg.length
\* is 0, and for every other arg returns that arg.
C16_EnsureHasLength ==
    ehl.called =>
        /\ (ehl.threw = "Empty") <=> (ehl.arg.length = 0)
        /\ ehl.arg.length # 0 => (ehl.threw = "none" /\ ehl.ret = ehl.arg)

\* ensureHasLength returned an object whose length is not the number of its items.
C16_Witness ==
    /\ ehl.called
    /\ ehl.arg.length = -1
    /\ ehl.arg.items = <<1, 2>>
    /\ ehl.threw = "none"
    /\ ehl.ret = ehl.arg

\* The number of the lines of c, among its first n, whose text is t.
CountText(c, t, n) == Cardinality({k \in 1 .. n : c[k].text = t})

\* C17: 'logger decorator' is logged exactly once, at the class definition
\* and so before any construction starts; each construction logs 'class
\* constructor' exactly once, after the original constructor has run and
\* before the instance is returned, so before anything the instance logs.
C17_LoggerOrder ==
    LET c == deco.console
        made == Len(deco.instances)
    IN  /\ CountText(c, <<"logger decorator">>, Len(c))
              = (IF deco.decorated THEN 1 ELSE 0)
        /\ ~deco.decorated => (made = 0 /\ deco.pc = "idle")
        /\ deco.decorated => c[1].text = <<"logger decorator">>
        /\ CountText(c, <<"class constructor">>, Len(c))
              = made + (IF deco.pc = "return" THEN 1 ELSE 0)
        /\ deco.pc = "return" => deco.this.name = "Max"
        /\ \A k \in 1 .. Len(c) :
              c[k].who > 0 =>
                  \E j \in 1 .. k :
                      c[j] = Line(<<"class constructor">>, c[k].who)

\* The second instance has greeted, after both constructions were logged.
C17_Witness ==
    /\ Len(deco.instances) = 2
    /\ deco.pc = "idle"
    /\ \E k \in 1 .. Len(deco.console) :
          deco.console[k] = Line(<<"Hi, I am ", "Max">>, 2)
    /\ CountText(deco.console, <<"class constructor">>, Len(deco.console)) = 2

\* C18: every instance created through the decorated Person has age = 35
\* beside the name = 'Max' of the original class, and greet() logs what the
\* original greet() logs.
C18_AddedField ==
    /\ \A i \in 1 .. Len(deco.instances) :
          deco.instances[i] = [name |-> "Max", age |-> 35]
    /\ \A k \in 1 .. Len(deco.console) :
          Len(deco.console[k].text) = 2 =>
              deco.console[k].text = <<"Hi, I am ", "Max">>

\* Two instances were returned and the first has greeted.
C18_Witness ==
    /\ Len(deco.instances) = 2
    /\ deco.instances[2].age = 35
    /\ \E k \in 1 .. Len(deco.console) :
          deco.console[k] = Line(<<"Hi, I am ", "Max">>, 1)

\* The pushes whose item no pop() has returned yet.
Unpopped == (1 .. Len(stack.log)) \ stack.popped

\* C19: pop() returns and removes the most recently pushed item that has not
\* been popped yet, and peek() returns that item without removing it.
C19_StackLifo ==
    /\ (stack.op = "pop" /\ stack.ret # NoItem) =>
          /\ stack.ret.n \in stack.popped
          /\ \A n \in Unpopped : n < stack.ret.n
          /\ stack.ret.v = stack.log[stack.ret.n]
    /\ (stack.op = "pop" /\ stack.ret = NoItem) => Unpopped = {}
    /\ (stack.op = "peek" /\ stack.ret # NoItem) =>
          /\ stack.ret.n \in Unpopped
          /\ \A n \in Unpopped : n <= stack.ret.n
          /\ stack.ret.v = stack.log[stack.ret.n]
    /\ (stack.op = "peek" /\ stack.ret = NoItem) => Unpopped = {}
    /\ {stack.items[k].n : k \in 1 .. Len(stack.items)} = Unpopped

\* push 10, push 20, pop returned 20.
C19_Witness ==
    /\ stack.log = <<10, 20>>
    /\ stack.op = "pop"
    /\ stack.ret = [v |-> 20, n |-> 2]
    /\ stack.items = <<[v |-> 10, n |-> 1]>>

\* The callbacks registered for the event of the last call.
Registered == {c \in Callbacks : emitter.added[emitter.event, c] > 0}

\* The last emit invoked each registered callback of its event exactly once,
\* with its argument, and nothing else.
EmitInvokesRegistered ==
    /\ {emitter.calls[k].cb : k \in 1 .. Len(emitter.calls)} = Registered
    /\ Len(emitter.calls) = Cardinality(Registered)
    /\ \A k \in 1 .. Len(emitter.calls) :
          /\ emitter.calls[k].arg = emitter.arg
          /\ emitter.calls[k].event = emitter.event

\* The last emit invoked its callbacks in the order of the times when.
EmitInOrderOf(when) ==
    \A j, k \in 1 .. Len(emitter.calls) :
        j < k => when[emitter.event, emitter.calls[j].cb]
                     < when[emitter.event, emitter.calls[k].cb]

\* C20 as stated: emit invokes each callback registered for the event exactly
\* once with the given args, in the order the callbacks were first registered,
\* and no callback of another event.
C20_EmitFirstRegistered ==
    emitter.op = "emit" => (EmitInvokesRegistered /\ EmitInOrderOf(emitter.first))

\* C20 as amended: the order is that in which the callbacks were added to the
\* event's current listener set; a callback removed with off() and registered
\* again is invoked after those that stayed registered.
C20_EmitInSetOrder ==
    emitter.op = "emit" => (EmitInvokesRegistered /\ EmitInOrderOf(emitter.added))

\* An emit invoked g and then f, f having been registered first, removed and
\* registered again, with h registered for the other event only.
C20_Witness ==
    /\ emitter.op = "emit"
    /\ Len(emitter.calls) = 2
    /\ emitter.calls[1].cb = "g"
    /\ emitter.calls[2].cb = "f"
    /\ emitter.first[emitter.event, "f"] < emitter.first[emitter.event, "g"]
    /\ \E e \in Events : e # emitter.event /\ emitter.added[e, "h"] > 0

\* The saves made so far with the id i, by their place in repo.saved.
SavesOf(i) == {k \in 1 .. Len(repo.saved) : repo.saved[k].id = i}

\* The item get(i) is to return: the one of the last save with the id i.
LatestSaved(i) ==
    IF SavesOf(i) = {} THEN NoEntry
    ELSE repo.saved[CHOOSE k \in SavesOf(i) : \A j \in SavesOf(i) : j <= k]

\* C21: get(id) returns the item most recently saved with that id, whatever
\* was saved with other ids before or after, and undefined for an id never
\* saved.
C21_GetLatestSaved ==
    /\ repo.op = "get" => repo.ret = LatestSaved(repo.id)
    /\ \A i \in RepoIds : get(repo.store, i) = LatestSaved(i)

\* A get returned the second of two items saved with its id, a save with the
\* other id having come after them.
C21_Witness ==
    /\ repo.op = "get"
    /\ Len(repo.saved) = 3
    /\ repo.saved[1].id = repo.id
    /\ repo.saved[2].id = repo.id
    /\ repo.saved[1].name # repo.saved[2].name
    /\ repo.saved[3].id # repo.id
    /\ repo.ret = repo.saved[2]

\* The successors C22 lists for each state.
ListedSuccessors(f) ==
    CASE f = "idle" -> {"loading", "error"}
      [] f = "loading" -> {"success", "error"}
      [] f = "success" -> {"idle"}
      [] f = "error" -> {"idle", "loading"}

\* The states the machine went through, the present one last.
FsmTrace == Append(fsm.path, fsm.state)

\* C22: for a state From and a string To, CanTransition<From, To> is true when
\* To is a listed successor of From and false when it is not; idle -> loading
\* is allowed, idle -> success is not, and no transition taken leads from idle
\* to success.
C22_CanTransition ==
    /\ \A f \in FsmStates, t \in Literals :
          (fsm.asked /\ fsm.from = {f} /\ fsm.to = {t})
              => fsm.result = {t \in ListedSuccessors(f)}
    /\ CanTransition({"idle"}, {"loading"}) = {TRUE}
    /\ CanTransition({"idle"}, {"success"}) = {FALSE}
    /\ \A k \in 1 .. Len(FsmTrace) - 1 :
          /\ FsmTrace[k + 1] \in ListedSuccessors(FsmTrace[k])
          /\ ~(FsmTrace[k] = "idle" /\ FsmTrace[k + 1] = "success")

\* CanTransition<"idle", "success"> was found false, and the machine reached
\* success from idle by way of loading.
C22_Witness ==
    /\ fsm.asked
    /\ fsm.from = {"idle"}
    /\ fsm.to = {"success"}
    /\ fsm.result = {FALSE}
    /\ fsm.path = <<"idle", "loading">>
    /\ fsm.state = "success"

\* How many times x occurs in the sequence s.
Count(s, x) == Cardinality({k \in 1 .. Len(s) : s[k] = x})

\* The callbacks the last emit invoked, in order.
Invoked == [k \in 1 .. Len(emitter.calls) |-> emitter.calls[k].cb]

\* What one call of on, off or emit does, the call being the one recorded in
\* the state after it.
C23_Step ==
    LET e == emitter'.event
        c == emitter'.cb
        before == emitter.listeners
        after == emitter'.listeners
    IN  /\ emitter'.op = "on" =>
              /\ Count(after[e].set, c) = 1
              /\ IsIn(before[e].set, c) => after = before
        /\ emitter'.op = "off" =>
              /\ Count(after[e].set, c) = 0
              /\ emitter'.threw = "none"
              /\ ~IsIn(before[e].set, c) => after = before
              /\ \A e2 \in Events, c2 \in Callbacks :
                    <<e2, c2>> # <<e, c>> =>
                        Count(after[e2].set, c2) = Count(before[e2].set, c2)
        /\ emitter'.op = "emit" =>
              \A c2 \in Callbacks :
                  Count(Invoked', c2) = IF IsIn(before[e].set, c2) THEN 1 ELSE 0

\* C23: on(event, cb) for a callback already registered changes nothing, so
\* that an emit invokes it once; one off(event, cb) leaves no registration of
\* cb for the event; off for a callback or event not registered changes
\* nothing; off raises no error.
C23_Idempotent == [][C23_Step]_vars

\* An emit invoked f once after on was called twice, both times with f and the
\* same event.
C23_Witness ==
    /\ emitter.op = "emit"
    /\ emitter.clock = 2
    /\ Invoked = <<"f">>
    /\ \A e \in Events, c \in Callbacks :
          <<e, c>> # <<emitter.event, "f">> => emitter.first[e, c] = 0

\* The emit at hand invoked c after the call numbered t.
InvokedAfter(c, t) ==
    \E k \in 1 .. Len(live.calls) :
        live.calls[k].cb = c /\ live.calls[k].tick > t

\* C24 as stated: a callback removed with off() before its turn is not invoked
\* in that emit, and a callback newly added with on() for the same event is
\* invoked before that emit returns.
C24_LiveAlways ==
    \A c \in Callbacks :
        /\ live.firstOff[c] > 0 => c \notin LiveInvoked
        /\ (live.returned /\ live.onAt[c] > 0) => InvokedAfter(c, live.onAt[c])

\* C24 as amended: a callback removed before its turn and not registered again
\* later in that emit is not invoked in it, and a callback newly added for the
\* same event and not removed again later in that emit is invoked before the
\* emit returns.
C24_LiveUnlessUndone ==
    \A c \in Callbacks :
        /\ (live.firstOff[c] > 0 /\ live.onAt[c] < live.firstOff[c])
              => c \notin LiveInvoked
        /\ (live.returned /\ live.onAt[c] > 0 /\ live.offAt[c] < live.onAt[c])
              => InvokedAfter(c, live.onAt[c])

\* An emit returned after f, invoked first, removed g before its turn and
\* added h: it invoked f and h and not g.
C24_Witness ==
    /\ live.returned
    /\ live.firstOff["g"] > 0
    /\ live.onAt["h"] > live.firstOff["g"]
    /\ live.onAt["g"] = 0
    /\ live.offAt["h"] = 0
    /\ Len(live.calls) = 2
    /\ live.calls[1].cb = "f"
    /\ live.calls[2].cb = "h"

\* C25: LinkedList.fromArray(arr).toArray() has the elements of arr in their
\* order and size() is arr.length, the empty array included.
C25_RoundTrip ==
    pair.op = "fromArray" =>
        /\ toArray(heap, head) = pair.arg
        /\ size = Len(pair.arg)
        /\ pair.arg = <<>> => head = Undefined

\* The list was made from an array of three elements, in place of a list
\* that held something else.
C25_Witness ==
    /\ pair.op = "fromArray"
    /\ pair.arg = <<2, 1, 2>>
    /\ pair.pre # <<>>
    /\ pair.pre # pair.arg

\* C26: insertAt(i, v) with 0 <= i <= size() followed by removeAt(i) returns v
\* and leaves the contents and the size as they were before the insert.
C26_InsertRemoveInverse ==
    (/\ pair.op = "removeAt"
     /\ pair.prevOp = "insertAt"
     /\ pair.index = pair.prevIndex
     /\ 0 <= pair.index
     /\ pair.index <= pair.pre2Size)
        => /\ pair.ret = pair.prevValue
           /\ pair.threw = "none"
           /\ Contents = pair.pre2
           /\ size = pair.pre2Size
           /\ Len(pair.pre) = Len(pair.pre2) + 1

\* An element was inserted in the middle of a list of two and removed again.
C26_Witness ==
    /\ pair.op = "removeAt"
    /\ pair.prevOp = "insertAt"
    /\ pair.index = 1
    /\ pair.prevIndex = 1
    /\ pair.pre2 = <<1, 1>>
    /\ pair.prevValue = 2
    /\ pair.ret = 2

\* C27: a list given insertAt(size(), v) wherever another is given add(v) has
\* the same contents and size, and on the empty list both make v the head.
C27_InsertAtSizeIsAdd ==
    /\ toArray(twin.heap, twin.head) = Contents
    /\ twin.size = size
    /\ pair.op = "add" =>
          /\ twin.threw = "none"
          /\ Contents = Append(pair.pre, pair.value)
          /\ pair.pre = <<>> =>
                /\ head # Undefined
                /\ twin.head # Undefined
                /\ heap[head].value = pair.value
                /\ twin.heap[twin.head].value = pair.value

\* add(v) was called on a list of two elements, after an add on the empty list.
C27_Witness ==
    /\ pair.op = "add"
    /\ pair.preSize = 2
    /\ pair.pre[1] # pair.value
    /\ twin.size = 3

\* The methods that read.
ReadOps == {"find", "toArray", "size", "forEach", "iterate"}

\* C28: find, toArray, size, forEach and an iteration leave the contents and
\* size() as they were before the call.
C28_ReadsLeaveList ==
    last.op \in ReadOps =>
        /\ Contents = last.pre
        /\ size = last.preSize
        /\ Len(Contents) = size

\* forEach went through a list of three elements.
C28_Witness ==
    /\ last.op = "forEach"
    /\ last.pre = <<1, 2, 1>>
    /\ last.ret = <<<<1, 0>>, <<2, 1>>, <<1, 2>>>>

\* What one call of pop or peek does, the call being the one recorded in the
\* state after it.
C29_Step ==
    /\ (stack.items = <<>> /\ stack'.op \in {"pop", "peek"}) =>
          /\ stack'.ret = NoItem
          /\ stack'.threw = "none"
          /\ stack'.items = <<>>
    /\ stack'.op = "peek" =>
          /\ stack'.items = stack.items
          /\ stack'.threw = "none"

\* C29: on an empty Stack pop() and peek() return undefined, raise no error
\* and leave the stack empty, and peek() never changes the stack's contents.
C29_EmptyStack == [][C29_Step]_vars

\* pop() returned undefined on a stack that earlier pops had emptied.
C29_Witness ==
    /\ stack.op = "pop"
    /\ stack.ret = NoItem
    /\ stack.items = <<>>
    /\ Len(stack.log) = 2
    /\ stack.popped = {1, 2}

====
